---- MODULE Spec2Model ----
(***************************************************************************)
(* The REINFORCE training run of src/main.py (function main): checkpoint   *)
(* resume, run-state initialisation, the epoch loop (probabilities,        *)
(* episodes, optimizer step, baseline update, selection-record write) and  *)
(* the final checkpoint save.                                              *)
(*                                                                         *)
(* Floating point values are modelled as exact rationals [num, den]; the   *)
(* value with den = 0 stands for a non-finite value (NaN).  Rounding of    *)
(* IEEE doubles is not modelled.                                           *)
(***************************************************************************)
EXTENDS Integers, Sequences, FiniteSets, TLC

\* ------------------------------------------------------------------ bounds
MaxEpoch == 3
MaxEpisode == 3
\* at most this many episodes are scored in one run
MaxScored == 4
MaxStart == 1
RewardScale == 2

\* ------------------------------------------------------- exact arithmetic
RECURSIVE GCD(_, _)
GCD(a, b) == IF b = 0 THEN a ELSE GCD(b, a % b)

Abs(n) == IF n < 0 THEN -n ELSE n

NaN == [num |-> 0, den |-> 0]

IsNaN(x) == x.den = 0

Rat(n, d) ==
    IF d = 0 THEN NaN
    ELSE IF n = 0 THEN [num |-> 0, den |-> 1]
    ELSE LET g == GCD(Abs(n), d) IN [num |-> n \div g, den |-> d \div g]

FAdd(a, b) ==
    IF IsNaN(a) \/ IsNaN(b) THEN NaN
    ELSE Rat(a.num * b.den + b.num * a.den, a.den * b.den)

FMul(a, b) ==
    IF IsNaN(a) \/ IsNaN(b) THEN NaN
    ELSE Rat(a.num * b.num, a.den * b.den)

\* comparisons with a NaN operand are false, as in IEEE arithmetic
FGt(a, b) == ~IsNaN(a) /\ ~IsNaN(b) /\ a.num * b.den > b.num * a.den

FLe(a, b) == ~IsNaN(a) /\ ~IsNaN(b) /\ a.num * b.den <= b.num * a.den

FLt(a, b) == ~IsNaN(a) /\ ~IsNaN(b) /\ a.num * b.den < b.num * a.den

RECURSIVE FSum(_)
FSum(s) == IF s = <<>> THEN Rat(0, 1) ELSE FAdd(Head(s), FSum(Tail(s)))

\* np.mean: the mean of an empty list is nan
Mean(s) ==
    IF s = <<>> THEN NaN
    ELSE LET t == FSum(s) IN IF IsNaN(t) THEN NaN ELSE Rat(t.num, t.den * Len(s))

\* ------------------------------------------------------------ the dataset
fpaths == <<"f0", "f1", "f2">>

dist == Len(fpaths)

\* features = features_all[start:start+dist, :]
SeqLen(start) == IF start >= dist THEN 0 ELSE dist - start

VARIABLES
    pc,             \* position of main()
    error,          \* the exception that ended the run, "none" while running
    args,           \* the parsed command line
    params,         \* the Policy Parameters (model.state_dict())
    start_epoch,    \* {} while unbound, {n} once assigned
    epoch,
    baseline,
    best_reward,
    best_pi,
    probs,
    cost,
    epis_rewards,
    reward,
    pick_idxs,
    selection,      \* the files of ./selection/, by key
    f_open,         \* the handle f of the selection record
    f_pos,          \* number of entries of best_pi written through f
    mean_hist,      \* history: np.mean(epis_rewards) of every finished epoch
    first_max,      \* history: the first episode with the largest finite reward so far
    probsCount,     \* history: forward passes
    baselineCount,  \* history: baseline updates
    writeCount,     \* history: completed selection-record writes
    checkpoint      \* the snapshot written by save_checkpoint

vars == <<pc, error, args, params, start_epoch, epoch, baseline, best_reward,
          best_pi, probs, cost, epis_rewards, reward, pick_idxs, selection,
          f_open, f_pos, mean_hist, first_max, probsCount, baselineCount,
          writeCount, checkpoint>>

histVars == <<mean_hist, first_max, probsCount, baselineCount, writeCount>>

\* --------------------------------------------------------------- helpers
FreshParams == [origin |-> "fresh", steps |-> 0, finite |-> TRUE]

\* model.load_state_dict(torch.load(args.resume))
LoadedParams == [origin |-> "snapshot", steps |-> 0, finite |-> TRUE]

NoCheckpoint == [origin |-> "none", steps |-> 0, finite |-> TRUE]

\* probs = model(seq): a function of the parameters alone
Forward(p) == [origin |-> p.origin, steps |-> p.steps, finite |-> p.finite]

InitialBaseline == Rat(0, 1)

InitialBestReward == Rat(0, 1)

InitialBestPi == <<>>

\* cost = args.beta * (probs.mean() - 0.5)**2
InitialCost(pr) == [finite |-> pr.finite, terms |-> 0]

\* cost -= log_probs.mean() * (reward - baseline)
AccumulateCost(c, lpFinite, r, b) ==
    [finite |-> c.finite /\ lpFinite /\ ~IsNaN(r) /\ ~IsNaN(b),
     terms |-> c.terms + 1]

\* log_probs = m.log_prob(actions): Bernoulli clamps the probabilities away from
\* 0 and 1, so the log-probability is finite exactly when the probabilities are
LogProbFinite(pr) == pr.finite

\* faulty variant of IsImprovement: a tie counts as an improvement (>= for >)
IsImprovementOrTie(r, b) == FGt(r, b) \/ (~IsNaN(r) /\ r = b)

\* if(reward>best_reward)
IsImprovement(r, b) == FGt(r, b)

\* faulty variant of EpisodesDone: the episode loop stops one episode early
EpisodesDoneEarly(rewards, n) == Len(rewards) >= n - 1

\* for _ in range(args.num_episode): the loop is over
EpisodesDone(rewards, n) == Len(rewards) >= n

\* optimizer.zero_grad(); cost.backward(); optimizer.step()
StepParams(p, c) ==
    [origin |-> p.origin, steps |-> p.steps + 1, finite |-> p.finite /\ c.finite]

\* faulty variant of BaselineUpdate: the previous baseline is dropped
BaselineUpdateReset(b, rewards) == FMul(Rat(1, 10), Mean(rewards))

\* faulty variant of BaselineUpdate: the mean reward is not scaled by 0.1
BaselineUpdateUnscaled(b, rewards) == FAdd(FMul(Rat(9, 10), b), Mean(rewards))

\* baseline = 0.9 * baseline + 0.1 * np.mean(epis_rewards)
BaselineUpdate(b, rewards) ==
    FAdd(FMul(Rat(9, 10), b), FMul(Rat(1, 10), Mean(rewards)))

\* faulty variant of OpenForWrite: the file is opened in append mode
OpenForAppend(content) == content

\* open('selection/'+str(start)+'.txt','w') truncates the file
OpenForWrite(content) == <<>>

\* f.write(fpaths[start+idx]+'\n'); Python indexes from 0
RecordLine(start, idx) == fpaths[start + idx + 1]

NoFiles == [k \in {} |-> <<>>]

FileContent(dir, key) == IF key \in DOMAIN dir THEN dir[key] ELSE <<>>

\* ------------------------------------------- compute_reward (rewards.py)
\* k <= 0 or k > L is rejected before any computation
ComputeRewardRejects(picks, L) == picks <= 0 \/ picks > L

\* the k selected indices, sorted ascending
PickLists(L, k) ==
    {s \in [1..k -> 0..(L - 1)] : \A i \in 1..k : \A j \in 1..k : i < j => s[i] < s[j]}

\* the reward is clipped to [0,1]; a numerical failure yields a non-finite one
RewardValues == {Rat(i, RewardScale) : i \in 0..RewardScale} \cup {NaN}

ComputeRewardResults(L, k) ==
    {[reward |-> r, pick_idxs |-> p] : r \in RewardValues, p \in PickLists(L, k)}

\* history: the episode with the largest finite reward, the earliest on a tie
FirstMax(fm, res) ==
    IF IsNaN(res.reward) THEN fm
    ELSE IF fm = {} \/ (\E e \in fm : FGt(res.reward, e.reward)) THEN {res}
    ELSE fm

\* ------------------------------------------------------------------ Init
ArgsSpace ==
    {a \in [resume : BOOLEAN, max_epoch : 0..MaxEpoch, num_episode : 0..MaxEpisode,
            start_idx : 0..MaxStart, number_of_picks : 0..(dist + 1)] :
        /\ a.number_of_picks <= SeqLen(a.start_idx) + 1
        /\ a.max_epoch * a.num_episode <= MaxScored}

Init ==
    /\ pc = "resume_check"
    /\ error = "none"
    /\ args \in ArgsSpace
    /\ params = FreshParams
    /\ start_epoch = {}
    /\ epoch = 0
    /\ baseline = InitialBaseline
    /\ best_reward = InitialBestReward
    /\ best_pi = InitialBestPi
    /\ probs = Forward(FreshParams)
    /\ cost = InitialCost(probs)
    /\ epis_rewards = <<>>
    /\ reward = Rat(0, 1)
    /\ pick_idxs = <<>>
    /\ selection \in {NoFiles, (args.start_idx :> <<"stale">>)}
    /\ f_open = FALSE
    /\ f_pos = 0
    /\ mean_hist = <<>>
    /\ first_max = {}
    /\ probsCount = 0
    /\ baselineCount = 0
    /\ writeCount = 0
    /\ checkpoint = NoCheckpoint

Abort(e) == pc' = "aborted" /\ error' = e

\* --------------------------------------------------------------- actions
\* lines 101-106
ResumeCheck ==
    /\ pc = "resume_check"
    /\ IF args.resume
       THEN params' = LoadedParams /\ start_epoch' = start_epoch
       ELSE params' = params /\ start_epoch' = {0}
    /\ pc' = "init_run"
    /\ UNCHANGED <<error, args, epoch, baseline, best_reward, best_pi, probs, cost,
                   epis_rewards, reward, pick_idxs, selection, f_open, f_pos,
                   checkpoint>>
    /\ UNCHANGED histVars

\* lines 112-120
InitRun ==
    /\ pc = "init_run"
    /\ baseline' = InitialBaseline
    /\ best_reward' = InitialBestReward
    /\ best_pi' = InitialBestPi
    /\ selection' = NoFiles
    /\ pc' = "enter_loop"
    /\ UNCHANGED <<error, args, params, start_epoch, epoch, probs, cost,
                   epis_rewards, reward, pick_idxs, f_open, f_pos, checkpoint>>
    /\ UNCHANGED histVars

\* line 122: range(start_epoch, args.max_epoch) reads start_epoch
EnterLoop ==
    /\ pc = "enter_loop"
    /\ IF start_epoch = {}
       THEN Abort("UnboundLocalError") /\ epoch' = epoch
       ELSE /\ epoch' = CHOOSE n \in start_epoch : TRUE
            /\ pc' = "loop"
            /\ error' = error
    /\ UNCHANGED <<args, params, start_epoch, baseline, best_reward, best_pi, probs,
                   cost, epis_rewards, reward, pick_idxs, selection, f_open, f_pos,
                   checkpoint>>
    /\ UNCHANGED histVars

\* line 122: the next value of the range, or its end
LoopHead ==
    /\ pc = "loop"
    /\ pc' = IF epoch < args.max_epoch THEN "probs" ELSE "save"
    /\ UNCHANGED <<error, args, params, start_epoch, epoch, baseline, best_reward,
                   best_pi, probs, cost, epis_rewards, reward, pick_idxs, selection,
                   f_open, f_pos, checkpoint>>
    /\ UNCHANGED histVars

\* lines 123-129
ComputeProbs ==
    /\ pc = "probs"
    /\ probs' = Forward(params)
    /\ cost' = InitialCost(probs')
    /\ epis_rewards' = <<>>
    /\ probsCount' = probsCount + 1
    /\ pc' = "episode"
    /\ UNCHANGED <<error, args, params, start_epoch, epoch, baseline, best_reward,
                   best_pi, reward, pick_idxs, selection, f_open, f_pos, checkpoint,
                   mean_hist, first_max, baselineCount, writeCount>>

\* lines 131-139, one iteration of the episode loop
Episode ==
    /\ pc = "episode"
    /\ ~EpisodesDone(epis_rewards, args.num_episode)
    /\ IF ComputeRewardRejects(args.number_of_picks, SeqLen(args.start_idx))
       THEN /\ Abort("ValueError")
            /\ UNCHANGED <<best_reward, best_pi, cost, epis_rewards, reward,
                           pick_idxs, first_max>>
       ELSE \E res \in ComputeRewardResults(SeqLen(args.start_idx), args.number_of_picks) :
            LET lpFinite == LogProbFinite(probs) IN
                /\ reward' = res.reward
                /\ pick_idxs' = res.pick_idxs
                /\ IF IsImprovement(reward', best_reward)
                   THEN best_reward' = reward' /\ best_pi' = pick_idxs'
                   ELSE best_reward' = best_reward /\ best_pi' = best_pi
                /\ cost' = AccumulateCost(cost, lpFinite, reward', baseline)
                /\ epis_rewards' = Append(epis_rewards, reward')
                /\ first_max' = FirstMax(first_max, res)
                /\ pc' = pc
                /\ error' = error
    /\ UNCHANGED <<args, params, start_epoch, epoch, baseline, probs, selection,
                   f_open, f_pos, checkpoint, mean_hist, probsCount, baselineCount,
                   writeCount>>

\* lines 141-143
OptimizerStep ==
    /\ pc = "episode"
    /\ EpisodesDone(epis_rewards, args.num_episode)
    /\ params' = StepParams(params, cost)
    /\ pc' = "baseline"
    /\ UNCHANGED <<error, args, start_epoch, epoch, baseline, best_reward, best_pi,
                   probs, cost, epis_rewards, reward, pick_idxs, selection, f_open,
                   f_pos, checkpoint>>
    /\ UNCHANGED histVars

\* lines 144-145
UpdateBaseline ==
    /\ pc = "baseline"
    /\ baseline' = BaselineUpdate(baseline, epis_rewards)
    /\ mean_hist' = Append(mean_hist, Mean(epis_rewards))
    /\ baselineCount' = baselineCount + 1
    /\ pc' = "open"
    /\ UNCHANGED <<error, args, params, start_epoch, epoch, best_reward, best_pi,
                   probs, cost, epis_rewards, reward, pick_idxs, selection, f_open,
                   f_pos, checkpoint, first_max, probsCount, writeCount>>

\* line 146; the open itself may fail
OpenRecord ==
    /\ pc = "open"
    /\ \/ /\ selection' = (args.start_idx :>
                              OpenForWrite(FileContent(selection, args.start_idx)))
                          @@ selection
          /\ f_open' = TRUE
          /\ f_pos' = 0
          /\ pc' = "write"
          /\ error' = error
       \/ /\ Abort("IOError")
          /\ UNCHANGED <<selection, f_open, f_pos>>
    /\ UNCHANGED <<args, params, start_epoch, epoch, baseline, best_reward, best_pi,
                   probs, cost, epis_rewards, reward, pick_idxs, checkpoint>>
    /\ UNCHANGED histVars

\* lines 147-148, one iteration; the write may fail
WriteLine ==
    /\ pc = "write"
    /\ f_pos < Len(best_pi)
    /\ \/ /\ selection' = [selection EXCEPT ![args.start_idx] =
                              Append(@, RecordLine(args.start_idx, best_pi[f_pos + 1]))]
          /\ f_pos' = f_pos + 1
          /\ pc' = pc
          /\ error' = error
       \/ /\ Abort("IOError")
          /\ UNCHANGED <<selection, f_pos>>
    /\ UNCHANGED <<args, params, start_epoch, epoch, baseline, best_reward, best_pi,
                   probs, cost, epis_rewards, reward, pick_idxs, f_open, checkpoint>>
    /\ UNCHANGED histVars

\* line 149, then the next iteration of the epoch loop
CloseRecord ==
    /\ pc = "write"
    /\ f_pos >= Len(best_pi)
    /\ f_open' = FALSE
    /\ writeCount' = writeCount + 1
    /\ epoch' = epoch + 1
    /\ pc' = "loop"
    /\ UNCHANGED <<error, args, params, start_epoch, baseline, best_reward, best_pi,
                   probs, cost, epis_rewards, reward, pick_idxs, selection, f_pos,
                   checkpoint, mean_hist, first_max, probsCount, baselineCount>>

\* lines 152-159
SaveCheckpoint ==
    /\ pc = "save"
    /\ checkpoint' = params
    /\ pc' = "done"
    /\ UNCHANGED <<error, args, params, start_epoch, epoch, baseline, best_reward,
                   best_pi, probs, cost, epis_rewards, reward, pick_idxs, selection,
                   f_open, f_pos>>
    /\ UNCHANGED histVars

Next ==
    \/ ResumeCheck
    \/ InitRun
    \/ EnterLoop
    \/ LoopHead
    \/ ComputeProbs
    \/ Episode
    \/ OptimizerStep
    \/ UpdateBaseline
    \/ OpenRecord
    \/ WriteLine
    \/ CloseRecord
    \/ SaveCheckpoint

Spec == Init /\ [][Next]_vars

\* ------------------------------------------------------------ properties
Running == pc # "aborted"

NaNSeen ==
    \/ \E i \in 1..Len(epis_rewards) : IsNaN(epis_rewards[i])
    \/ \E i \in 1..Len(mean_hist) : IsNaN(mean_hist[i])

\* the transition scores one episode
EpisodeScored == pc = "episode" /\ epis_rewards' = Append(epis_rewards, reward')

\* C1: an episode whose reward is less than or equal to the current best_reward
\* leaves best_reward and best_pi unchanged; in particular an equal reward does.
C1_StrictImprovementOnly ==
    [][(EpisodeScored /\ FLe(reward', best_reward))
        => (best_reward' = best_reward /\ best_pi' = best_pi)]_vars

\* an episode tied with a positive best reward, with other picks, was just scored
C1_Witness ==
    /\ pc = "episode"
    /\ epis_rewards # <<>>
    /\ reward = best_reward
    /\ FGt(best_reward, Rat(0, 1))
    /\ pick_idxs # best_pi

\* C2: once at least one episode is scored and all rewards are non-negative
\* (finite), best_reward is the maximum reward of the run so far and best_pi the
\* pick indices of the first episode that achieved it.
C2_BestIsFirstMaxOfRun ==
    (first_max # {} /\ ~NaNSeen)
        => \E e \in first_max : best_reward = e.reward /\ best_pi = e.pick_idxs

RECURSIVE FPow(_, _)
FPow(x, n) == IF n = 0 THEN Rat(1, 1) ELSE FMul(x, FPow(x, n - 1))

\* sum over i = 1..n of 0.1 * 0.9^(n-i) * r_i
RECURSIVE EMATerms(_, _)
EMATerms(h, i) ==
    IF i > Len(h) THEN Rat(0, 1)
    ELSE FAdd(FMul(FMul(Rat(1, 10), FPow(Rat(9, 10), Len(h) - i)), h[i]),
              EMATerms(h, i + 1))

ClosedFormEMA(h) == EMATerms(h, 1)

\* C3: the baseline starts at 0, is updated exactly once per finished epoch, and
\* after n epochs equals sum_{i=1..n} 0.1 * 0.9^(n-i) * r_i for the per-epoch
\* mean rewards r_1..r_n.
C3_BaselineIsEMA ==
    /\ baseline = ClosedFormEMA(mean_hist)
    /\ baselineCount = Len(mean_hist)
    /\ (Running /\ pc \notin {"open", "write"}) => baselineCount = epoch
    /\ pc \in {"open", "write"} => baselineCount = epoch + 1

\* two epochs with different finite mean rewards have been folded in
C3_Witness ==
    /\ Len(mean_hist) >= 2
    /\ ~NaNSeen
    /\ mean_hist[1] # mean_hist[2]
    /\ FGt(mean_hist[1], Rat(0, 1))
    /\ FGt(mean_hist[2], Rat(0, 1))
    /\ pc = "loop"

C4_Phase ==
    /\ pc \in {"resume_check", "init_run", "enter_loop"} =>
          /\ probsCount = 0 /\ params.steps = 0
          /\ baselineCount = 0 /\ writeCount = 0
    /\ pc \in {"loop", "probs", "save", "done"} =>
          /\ probsCount = epoch /\ params.steps = epoch
          /\ baselineCount = epoch /\ writeCount = epoch
    /\ pc = "episode" =>
          /\ probsCount = epoch + 1 /\ params.steps = epoch
          /\ baselineCount = epoch /\ writeCount = epoch
          /\ probs = Forward(params)
          /\ Len(epis_rewards) <= args.num_episode
          /\ cost.terms = Len(epis_rewards)
    /\ pc = "baseline" =>
          /\ probsCount = epoch + 1 /\ params.steps = epoch + 1
          /\ baselineCount = epoch /\ writeCount = epoch
          /\ Len(epis_rewards) = args.num_episode
          /\ cost.terms = args.num_episode
    /\ pc \in {"open", "write"} =>
          /\ probsCount = epoch + 1 /\ params.steps = epoch + 1
          /\ baselineCount = epoch + 1 /\ writeCount = epoch
          /\ Len(epis_rewards) = args.num_episode
    /\ pc \in {"save", "done"} => epoch = args.max_epoch
    /\ Running => epoch <= args.max_epoch

\* C4: every epoch computes the probabilities once, scores all num_episode
\* episodes against them and the same baseline, takes one optimizer step, updates
\* the baseline, writes the record, in this order and each exactly once; after
\* max_epoch epochs the loop is left for the terminal state.
C4_EpochOrder ==
    /\ []C4_Phase
    /\ [][(params' # params /\ pc' # "init_run")
            => (pc = "episode" /\ Len(epis_rewards) = args.num_episode
                /\ pc' = "baseline")]_vars
    /\ [][EpisodeScored => (probs' = probs /\ baseline' = baseline)]_vars
    /\ [][(pc = "loop" /\ epoch >= args.max_epoch) => pc' = "save"]_vars

\* a run of several epochs of several episodes each has reached the terminal state
C4_Witness ==
    /\ pc = "done"
    /\ args.max_epoch >= 2
    /\ args.num_episode >= 2
    /\ params.steps = args.max_epoch
    /\ writeCount = args.max_epoch

\* the identifiers of the Best Selection State, in stored order
BestIdentifiers ==
    [i \in 1..Len(best_pi) |-> fpaths[(args.start_idx + best_pi[i]) + 1]]

EpochEnded == pc \in {"loop", "probs", "save", "done"} /\ epoch >= 1

\* C5: at the end of every epoch the selection record keyed by the start offset
\* holds exactly the identifiers fpaths[start+idx] of the current best_pi, one
\* per line in stored order, and nothing else.
C5_RecordIsBestSelection ==
    EpochEnded =>
        /\ DOMAIN selection = {args.start_idx}
        /\ selection[args.start_idx] = BestIdentifiers

\* a second epoch that did not improve the best has rewritten a two-line record
C5_Witness ==
    /\ pc = "loop"
    /\ epoch = 2
    /\ args.num_episode = 1
    /\ args.start_idx = 1
    /\ ~NaNSeen
    /\ FLt(mean_hist[2], mean_hist[1])
    /\ selection[args.start_idx] = <<"f1", "f2">>

\* C6: a resumed run goes through the epoch loop to the terminal state as a
\* non-resumed run does: it never ends with an error other than those a
\* non-resumed run can end with.
C6_ResumedRunCompletes ==
    (args.resume /\ pc = "aborted") => error \in {"ValueError", "IOError"}

\* C7: a non-finite reward or log-probability aborts the run before the optimizer
\* step and the baseline update of that epoch: the parameters never take a step
\* on a non-finite cost and the baseline never becomes non-finite.
C7_NumericalErrorIsFatal ==
    args.num_episode >= 1 => (params.finite /\ ~IsNaN(baseline))

PickCountInvalid ==
    args.number_of_picks <= 0 \/ args.number_of_picks > SeqLen(args.start_idx)

\* C8: with a pick count <= 0 or > L no probability computation, optimizer step
\* or selection-record write ever happens.
C8_ConfigErrorBeforeTraining ==
    PickCountInvalid =>
        /\ probsCount = 0
        /\ params.steps = 0
        /\ writeCount = 0
        /\ ~f_open

\* C9: outside the write step no selection-record handle is open.
C9_HandleReleased == pc # "write" => ~f_open

\* C10: with num_episode >= 1 and every reward in [0,1], after one or more
\* epochs the baseline lies in [0,1) and does not exceed the largest per-epoch
\* mean reward so far.
C10_BaselineBounded ==
    (args.num_episode >= 1 /\ ~NaNSeen /\ mean_hist # <<>>) =>
        /\ FLe(Rat(0, 1), baseline)
        /\ FLt(baseline, Rat(1, 1))
        /\ \E i \in 1..Len(mean_hist) : FLe(baseline, mean_hist[i])

\* three epochs of finite rewards, the last with mean reward 1
C10_Witness ==
    /\ Len(mean_hist) >= 3
    /\ ~NaNSeen
    /\ mean_hist[Len(mean_hist)] = Rat(1, 1)
    /\ FGt(baseline, Rat(1, 10))

====
